---- MODULE Spec2Model ----
(***************************************************************************)
(* State-machine model of the RAG query engine of the GPay transaction     *)
(* analyser: rag/rag_pipeline.py (initialize_rag, query_rag and the        *)
(* structured interceptor), rag/rag_indexing.py (build_index),             *)
(* rag/rag_embeddings.py (the on-disk embedding cache),                     *)
(* rag/rag_processing.py (the chunkers), rag/rag_retrieval.py,              *)
(* rag/rag_reranking.py and rag/rag_llm.py.                                 *)
(*                                                                         *)
(* Strings are sequences of symbols (integers); the symbol 0 is            *)
(* whitespace.  "x in doc" of the source is containment of a symbol.       *)
(***************************************************************************)
EXTENDS Integers, Sequences, FiniteSets, TLC

(***************************************************************************)
(* Bounds of the model.                                                    *)
(***************************************************************************)
\* number of embedding models (dimensionalities) a process can be started with
MaxModels == 2
\* length of the longest statement text
MaxTextLen == 210
\* number of rows of the largest filtered subset rendered, and of the small ones
MaxRows == 202
FewRows == 12
\* number of chunks of the largest index searched on its own
MaxDocs == 30
\* number of candidates of the longest list reranked on its own
MaxCandidates == 18
\* number of rows of the largest raw table processed
MaxRawRows == 3
\* length of the longest text chunked on its own, and the most windows slid
\* over one text
MaxChunkText == 450
MaxWindows == 25

(***************************************************************************)
(* Option values: None is <<>>, Some(x) is <<x>>.                          *)
(***************************************************************************)
None == <<>>
Some(x) == <<x>>
NoPath == "None"

(***************************************************************************)
(* Program constants.                                                      *)
(***************************************************************************)
\* chunk_text(text, size=800, overlap=100)
ChunkSize == 800
ChunkOverlap == 100
\* "if len(chunk) > 200"
MinChunkLen == 200
TOP_K == 25
FINAL_K == 15
\* the literal path build_index is given when no source_file is passed
DfSource == "df_source"

(***************************************************************************)
(* The environment: files on disk, their bytes and their extracted text.   *)
(* Bytes 0 means that no file exists at the path.                          *)
(***************************************************************************)
Paths == {"s1.pdf", "s1_copy.pdf", "s2.pdf", "nofile.pdf", DfSource}

FileBytes(p) ==
    CASE p = "s1.pdf"      -> 1
      [] p = "s1_copy.pdf" -> 1
      [] p = "s2.pdf"      -> 2
      [] OTHER             -> 0

Exists(p) == p \in Paths /\ FileBytes(p) # 0

\* hashlib.md5 of the bytes: a digest, distinct for the distinct contents here
Md5(bytes) == 1000 + 37 * bytes

Hashes == {Md5(FileBytes(p)) : p \in {q \in Paths : Exists(q)}}

\* the text fitz extracts from a file: s1 is long enough for one chunk, s2 is not
PdfText(bytes) ==
    IF bytes = 1
    THEN [i \in 1..MaxTextLen |-> IF i \in {1, 2, MaxTextLen} THEN 0 ELSE 1 + (i % 7)]
    ELSE [i \in 1..150 |-> IF i % 10 = 0 THEN 0 ELSE 3]

(***************************************************************************)
(* Transactions and tables (DataFrames).                                   *)
(***************************************************************************)
Row1 == [Date |-> [d |-> 1, m |-> 1, y |-> 2024], Time |-> 10, Description |-> 41,
         Amount |-> 500, Type |-> "Spent", Category |-> "Travel", UPI |-> 123456]
Row2 == [Date |-> [d |-> 2, m |-> 1, y |-> 2024], Time |-> 14, Description |-> 42,
         Amount |-> 1000, Type |-> "Received", Category |-> "Income", UPI |-> 789012]
Row3 == [Date |-> [d |-> 22, m |-> 10, y |-> 2025], Time |-> 9, Description |-> 43,
         Amount |-> 250, Type |-> "Spent", Category |-> "Food", UPI |-> 555000]

EmptyTable == <<>>
Table1 == <<Row1>>
Table2 == <<Row1, Row2>>
Table3 == <<Row3, Row1>>
Tables == {Table1, Table2}

(***************************************************************************)
(* rag_processing.py: the chunkers.                                        *)
(***************************************************************************)
\* the first non-whitespace position from i on, Len(s) + 1 if there is none
FirstInk(s, i) ==
    IF i <= Len(s) /\ s[i] # 0 THEN i
    ELSE LET ink == {k \in i..Len(s) : s[k] # 0}
         IN  IF ink = {} THEN (IF i > Len(s) THEN i ELSE Len(s) + 1)
             ELSE CHOOSE k \in ink : \A m \in ink : k <= m

\* the last non-whitespace position up to i, 0 if there is none
LastInk(s, i) ==
    IF i >= 1 /\ s[i] # 0 THEN i
    ELSE LET ink == {k \in 1..i : s[k] # 0}
         IN  IF ink = {} THEN (IF i < 1 THEN i ELSE 0)
             ELSE CHOOSE k \in ink : \A m \in ink : m <= k

\* str.strip(): drop leading and trailing whitespace
Strip(s) == SubSeq(s, FirstInk(s, 1), LastInk(s, Len(s)))

\* text[i : i + size] for a 0-based start i
Window(text, i, size) ==
    SubSeq(text, i + 1, IF i + size < Len(text) THEN i + size ELSE Len(text))

RECURSIVE ChunkFrom(_, _, _, _)
ChunkFrom(text, i, size, step) ==
    IF i >= Len(text)
    THEN <<>>
    ELSE LET chunk == Strip(Window(text, i, size))
         IN  (IF Len(chunk) > MinChunkLen THEN <<chunk>> ELSE <<>>)
                 \o ChunkFrom(text, i + step, size, step)

\* a chunker that advances by the whole size
ChunkNoOverlap(text, size, overlap) == ChunkFrom(text, 0, size, size)

\* chunk_text(text, size, overlap); size > overlap
chunk_text(text, size, overlap) == ChunkFrom(text, 0, size, size - overlap)

DateSym(date) == date.y * 10000 + date.m * 100 + date.d
TypeSym(t) == IF t = "Spent" THEN 91 ELSE 92
CategorySym(c) ==
    CASE c = "Travel" -> 81
      [] c = "Income" -> 82
      [] c = "Food"   -> 83
      [] OTHER        -> 80

\* the rendering of one row: the seven labelled fields in fixed order
RenderRow(row) ==
    Strip(<<0, 101, DateSym(row.Date), 0, 102, row.Time, 0, 103, row.Description,
            0, 104, row.Amount, 0, 105, TypeSym(row.Type), 0, 106,
            CategorySym(row.Category), 0, 107, row.UPI, 0>>)

\* dataframe_to_chunks(df): one chunk per row, in row order
dataframe_to_chunks(df) == SubSeq([i \in 1..Len(df) |-> RenderRow(df[i])], 1, Len(df))

\* chunk_text(read_pdf(file_path)) with the default size and overlap, per content
PdfChunks == [b \in {1, 2} |-> chunk_text(PdfText(b), ChunkSize, ChunkOverlap)]

(***************************************************************************)
(* Embedding model, vectors and the similarity index (faiss).              *)
(* A vector is known by the text it embeds; a matrix has the               *)
(* dimensionality of the model that produced it.                           *)
(***************************************************************************)
Dims == 1..MaxModels

\* embedder.encode(chunks).astype("float32")
Encode(chunks, d) ==
    [dim |-> d, vecs |-> [i \in 1..Len(chunks) |-> [of |-> chunks[i], unit |-> FALSE]]]

\* faiss.normalize_L2(m)
NormalizeL2(m) ==
    [m EXCEPT !.vecs = [i \in 1..Len(m.vecs) |-> [m.vecs[i] EXCEPT !.unit = TRUE]]]

\* an index that is added all vectors but the last
IndexWithoutLast(d, m) ==
    [dim |-> d, vecs |-> SubSeq(m.vecs, 1, Len(m.vecs) - 1), built_from |-> m.dim]

\* faiss.IndexFlatIP(d) followed by index.add(m)
IndexFlatIP(d, m) == [dim |-> d, vecs |-> m.vecs, built_from |-> m.dim]

(***************************************************************************)
(* rag_embeddings.py: the cache, one file per content hash.                *)
(***************************************************************************)
Absent == [kind |-> "absent"]
Corrupt == [kind |-> "corrupt"]
Entry(embeddings, docs) == [kind |-> "ok", embeddings |-> embeddings, docs |-> docs]

\* a key that depends on the name: the copy of s1 gets the key of s2
PathKey(path) == IF path = "s1_copy.pdf" THEN Md5(2) ELSE Md5(FileBytes(path))

\* "with open(path, "rb") as f: return hashlib.md5(f.read()).hexdigest()"
file_hash(path) == Md5(FileBytes(path))

\* a save that writes nothing
SaveNothing(c, h, embeddings, docs) == c

\* save_embeddings_to_cache(hash_id, embeddings, docs)
save_embeddings_to_cache(c, h, embeddings, docs) ==
    [c EXCEPT ![h] = Entry(embeddings, docs)]

(***************************************************************************)
(* State.  DOCS, INDEX, PDF_READY, EMBEDDING_SOURCE and GLOBAL_DF are the   *)
(* module globals of rag_pipeline.py; cache is the content of embed_cache/; *)
(* dim is the dimensionality of the embedding model the process loaded.    *)
(* ret is the observation of the last call: its arguments, the             *)
(* collaborators it invoked, what it returned.  succeeded and lastGen are  *)
(* history: whether an initialize call has succeeded since the process     *)
(* started, and the most recent initialize call when it succeeded with     *)
(* status "generated" (its arguments, chunk count and the dimensionality   *)
(* then active).                                                           *)
(***************************************************************************)
VARIABLES DOCS, INDEX, PDF_READY, EMBEDDING_SOURCE, GLOBAL_DF, cache, dim,
          ret, succeeded, lastGen

pipeline == <<DOCS, INDEX, PDF_READY, EMBEDDING_SOURCE, GLOBAL_DF>>
vars == <<DOCS, INDEX, PDF_READY, EMBEDDING_SOURCE, GLOBAL_DF, cache, dim,
          ret, succeeded, lastGen>>

(***************************************************************************)
(* rag_indexing.py: build_index.  fault names the collaborator step that   *)
(* raises when it is reached ("none": no step raises); partial tells       *)
(* whether a failed save leaves a malformed file behind.  The value is     *)
(* the returned dict or the exception raised, the cache afterwards, the    *)
(* steps taken, and what the cache held for the hash when it was read.     *)
(***************************************************************************)
Raised(exc, c, calls, before) ==
    [raised |-> TRUE, exc |-> exc, cache |-> c, calls |-> calls, result |-> None,
     entry_before |-> before]

Returned(result, c, calls, before) ==
    [raised |-> FALSE, exc |-> "", cache |-> c, calls |-> calls, result |-> Some(result),
     entry_before |-> before]

CacheHit(index, docs, h) ==
    [index |-> index, docs |-> docs, status |-> "cache_hit",
     chunk_count |-> Len(docs), source |-> "Loaded from cache", file_hash |-> h]

Generated(index, chunks, h) ==
    [index |-> index, docs |-> chunks, status |-> "generated",
     chunk_count |-> Len(chunks), source |-> "Generated and cached", file_hash |-> h]

\* a cache test that looks at no dimensionality
UsableAnyDim(e, local_dim) == e.kind = "ok"

\* "cached_embeddings is not None and cached_embeddings.shape[1] == local_dim"
CacheUsable(e, local_dim) == e.kind = "ok" /\ e.embeddings.dim = local_dim

\* what load_cached_embeddings meets: no file, a malformed file, vectors of the
\* active dimensionality, vectors of another one
EntryKind(e, local_dim) ==
    IF e.kind # "ok" THEN e.kind
    ELSE IF e.embeddings.dim = local_dim THEN "current" ELSE "stale"

build_index(file_path, chunks, fault, partial) ==
    IF fault = "load_models"
    THEN Raised("load_models", cache, <<"load_models">>, "unread")
    ELSE IF ~Exists(file_path)
    THEN Raised("FileNotFoundError", cache, <<"load_models", "file_hash">>, "unread")
    ELSE IF fault = "file_hash"
    THEN Raised("file_hash", cache, <<"load_models", "file_hash">>, "unread")
    ELSE
    LET local_dim == dim
        h == file_hash(file_path)
        e == cache[h]
        before == EntryKind(e, local_dim)
        toLoad == <<"load_models", "file_hash", "load_cached_embeddings">>
    IN  IF e.kind = "corrupt" \/ (e.kind = "ok" /\ fault = "cache_load")
        THEN Raised("cache_load", cache, toLoad, before)
        ELSE IF CacheUsable(e, local_dim)
        THEN IF fault = "index"
             THEN Raised("index", cache, toLoad \o <<"index">>, before)
             ELSE Returned(CacheHit(IndexFlatIP(local_dim, NormalizeL2(e.embeddings)),
                                    e.docs, h),
                           cache, toLoad \o <<"index">>, before)
        ELSE IF fault = "embed"
        THEN Raised("embed", cache, toLoad \o <<"encode">>, before)
        ELSE
        LET embeddings == NormalizeL2(Encode(chunks, local_dim))
        IN  IF fault = "index"
            THEN Raised("index", cache, toLoad \o <<"encode", "index">>, before)
            ELSE IF fault = "cache_save"
            THEN Raised("cache_save",
                        IF partial THEN [cache EXCEPT ![h] = Corrupt] ELSE cache,
                        toLoad \o <<"encode", "index", "save_embeddings_to_cache">>,
                        before)
            ELSE Returned(Generated(IndexFlatIP(local_dim, embeddings), chunks, h),
                          save_embeddings_to_cache(cache, h, embeddings, chunks),
                          toLoad \o <<"encode", "index", "save_embeddings_to_cache">>,
                          before)

(***************************************************************************)
(* rag_pipeline.py: initialize_rag(file_path, df, source_file).            *)
(* The value is the globals after the call and what the call returned or   *)
(* raised.                                                                 *)
(***************************************************************************)
Globals(docs, index, ready, source, df) ==
    [DOCS |-> docs, INDEX |-> index, PDF_READY |-> ready, EMBEDDING_SOURCE |-> source,
     GLOBAL_DF |-> df]

Current == Globals(DOCS, INDEX, PDF_READY, EMBEDDING_SOURCE, GLOBAL_DF)

Message(kind, n, exc) == [kind |-> kind, n |-> n, exc |-> exc]

Failure(kind) == [message |-> Message(kind, 0, "")]

\* "return False, {...}" and "return True, result"
InitReturn(g, c, success, info, calls, before) ==
    [globals |-> g, cache |-> c, raised |-> FALSE, exc |-> "", success |-> success,
     info |-> info, calls |-> calls, entry_before |-> before]

\* an exception leaves the try block
InitRaise(g, c, exc, calls, before) ==
    [globals |-> g, cache |-> c, raised |-> TRUE, exc |-> exc, success |-> FALSE,
     info |-> [message |-> Message("", 0, exc)], calls |-> calls,
     entry_before |-> before]

\* "if df is not None and not df.empty"
DfGiven(df) == df # None /\ df[1] # EmptyTable

\* "GLOBAL_DF = df.copy()", the first statement of the DataFrame branch
EnterDfBranch(g, table) == [g EXCEPT !.GLOBAL_DF = Some(table)]

\* a PDF branch that drops the table on entry
DropTable(g) == [g EXCEPT !.GLOBAL_DF = None]

\* the PDF branch assigns no global before its build has returned
EnterPdfBranch(g) == g

\* a commit that appends the build's chunks to the chunks held
MergeDf(g, result) ==
    [g EXCEPT !.INDEX = Some(result.index), !.DOCS = g.DOCS \o result.docs,
              !.EMBEDDING_SOURCE = "dataframe", !.PDF_READY = TRUE]

\* "INDEX = result["index"]; DOCS = result["docs"]; EMBEDDING_SOURCE = "dataframe";
\*  PDF_READY = True"
CommitDf(g, result) ==
    [g EXCEPT !.INDEX = Some(result.index), !.DOCS = result.docs,
              !.EMBEDDING_SOURCE = "dataframe", !.PDF_READY = TRUE]

\* the same for the PDF branch, and "GLOBAL_DF = None"
CommitPdf(g, result) ==
    [g EXCEPT !.INDEX = Some(result.index), !.DOCS = result.docs,
              !.EMBEDDING_SOURCE = "generated", !.PDF_READY = TRUE, !.GLOBAL_DF = None]

\* "build_index(source_file if source_file else "df_source", chunks)"
DfIndexPath(source_file) == IF source_file # NoPath THEN source_file ELSE DfSource

\* Priority 1: the DataFrame branch
InitFromDf(df, source_file, fault, partial) ==
    LET g == EnterDfBranch(Current, df[1])
    IN  IF fault = "chunk"
        THEN InitRaise(g, cache, "chunk", <<"dataframe_to_chunks">>, "unread")
        ELSE
        LET chunks == dataframe_to_chunks(df[1])
        IN  IF chunks = <<>>
            THEN InitReturn(g, cache, FALSE, Failure("No chunks generated from DataFrame"),
                            <<"dataframe_to_chunks">>, "unread")
            ELSE
            LET b == build_index(DfIndexPath(source_file), chunks, fault, partial)
                calls == <<"dataframe_to_chunks">> \o b.calls
            IN  IF b.raised
                THEN InitRaise(g, b.cache, b.exc, calls, b.entry_before)
                ELSE InitReturn(CommitDf(g, b.result[1]), b.cache, TRUE,
                                b.result[1] @@
                                   [message |-> Message("Indexed", b.result[1].chunk_count, "")],
                                calls, b.entry_before)

\* Priority 2: the PDF branch
InitFromPdf(file_path, fault, partial) ==
    LET g == EnterPdfBranch(Current)
    IN  IF fault = "read_pdf"
        THEN InitRaise(g, cache, "read_pdf", <<"read_pdf">>, "unread")
        ELSE IF fault = "chunk"
        THEN InitRaise(g, cache, "chunk", <<"read_pdf", "chunk_text">>, "unread")
        ELSE
        LET chunks == PdfChunks[FileBytes(file_path)]
        IN  IF chunks = <<>>
            THEN InitReturn(g, cache, FALSE, Failure("No text chunks extracted from PDF"),
                            <<"read_pdf", "chunk_text">>, "unread")
            ELSE
            LET b == build_index(file_path, chunks, fault, partial)
                calls == <<"read_pdf", "chunk_text">> \o b.calls
            IN  IF b.raised
                THEN InitRaise(g, b.cache, b.exc, calls, b.entry_before)
                ELSE InitReturn(CommitPdf(g, b.result[1]), b.cache, TRUE,
                                b.result[1] @@
                                   [message |-> Message("Generated", b.result[1].chunk_count, "")],
                                calls, b.entry_before)

\* the body of the try block
initialize_try(file_path, df, source_file, fault, partial) ==
    IF DfGiven(df)
    THEN InitFromDf(df, source_file, fault, partial)
    ELSE IF file_path # NoPath /\ Exists(file_path)
    THEN InitFromPdf(file_path, fault, partial)
    ELSE InitReturn(Current, cache, FALSE, Failure("No data provided for indexing"),
                    <<>>, "unread")

\* no handler: the exception leaves initialize_rag
Unhandled(o) == o

\* "except Exception as e: return False, {"message": f"Error: {str(e)}..."}"
InitHandler(o) ==
    IF o.raised
    THEN [o EXCEPT !.raised = FALSE, !.success = FALSE,
                   !.info = [message |-> Message("Error", 0, o.exc)]]
    ELSE o

initialize_rag(file_path, df, source_file, fault, partial) ==
    InitHandler(initialize_try(file_path, df, source_file, fault, partial))

(***************************************************************************)
(* Questions.  A question is a sequence of tokens: numbers, month names,   *)
(* words (a symbol, with a flag for a capital initial) and the aggregate   *)
(* phrases.  The regular expressions of the source are scans     *)
(* over the tokens for their first match.                                  *)
(***************************************************************************)
\* a run of len digits; v is the symbol it reads as
Num(n, len) == [k |-> "num", v |-> n, len |-> len, cap |-> FALSE]
Mon(m) == [k |-> "mon", v |-> m, len |-> 3, cap |-> TRUE]
Word(w, cap) == [k |-> "word", v |-> w, len |-> 3, cap |-> cap]
Phrase(p) == [k |-> "phrase", v |-> p, len |-> 3, cap |-> FALSE]

GenericPhrases == {"total spent", "how much spent", "all transactions", "overall", "all time"}

FirstAt(S) == IF S = {} THEN None ELSE Some(CHOOSE i \in S : \A j \in S : i <= j)

\* r'\b(\d{1,2})\s*(Jan|...|Dec)[a-z]*'
match_day(q) ==
    LET at == FirstAt({i \in 1..(Len(q) - 1) :
                         /\ q[i].k = "num" /\ q[i].len <= 2
                         /\ q[i + 1].k = "mon"})
    IN  IF at = None THEN None
        ELSE Some([day |-> q[at[1]].v, month |-> q[at[1] + 1].v])

\* r'\b(Jan|...|Dec)[a-z]*\s*,?\s*(\d{4})\b'
match_my(q) ==
    LET at == FirstAt({i \in 1..(Len(q) - 1) :
                         /\ q[i].k = "mon"
                         /\ q[i + 1].k = "num" /\ q[i + 1].len = 4})
    IN  IF at = None THEN None
        ELSE Some([month |-> q[at[1]].v, year |-> q[at[1] + 1].v])

\* r'\b(Jan|...|Dec)[a-z]*\b'
match_mon(q) ==
    LET at == FirstAt({i \in 1..Len(q) : q[i].k = "mon"})
    IN  IF at = None THEN None ELSE Some(q[at[1]].v)

\* "cat.lower() in question.lower()": the label occurs, in any case
Mentions(q, cat) == \E i \in 1..Len(q) : q[i].k = "word" /\ q[i].v = CategorySym(cat)

\* "any(k in question.lower() for k in [...])"
IsGeneric(q) == \E i \in 1..Len(q) : q[i].k = "phrase" /\ q[i].v \in GenericPhrases

(***************************************************************************)
(* rag_pipeline.py: _generate_analytics_context(filtered, context_header). *)
(***************************************************************************)
LineLimit == 200

\* ['Amount'].sum(), by halves
RECURSIVE SumAmount(_)
SumAmount(rows) ==
    IF rows = <<>> THEN 0
    ELSE IF Len(rows) = 1 THEN rows[1].Amount
    ELSE LET half == Len(rows) \div 2
         IN  SumAmount(SubSeq(rows, 1, half)) + SumAmount(SubSeq(rows, half + 1, Len(rows)))

\* a selection of the rows that looks at no type
AnyType(rows, t) == rows

\* filtered[filtered['Type'] == t]
OfType(rows, t) == LET Keep(r) == r.Type = t IN SelectSeq(rows, Keep)

\* seq sorted by descending key[i], equal keys in their original order: the
\* element at i goes to the place after the elements of greater key and the
\* earlier elements of equal key
SortDesc(seq, key) ==
    LET n == Len(seq)
        place == SubSeq([i \in 1..n |->
                           Cardinality({j \in 1..n : key[j] > key[i]
                                                       \/ (key[j] = key[i] /\ j < i)}) + 1],
                        1, n)
    IN  SubSeq([p \in 1..n |-> seq[CHOOSE i \in 1..n : place[i] = p]], 1, n)

\* unique(), in order of first appearance
Unique(seq) ==
    LET first == SelectSeq([i \in 1..Len(seq) |-> i],
                           LAMBDA i : \A j \in 1..(i - 1) : seq[j] # seq[i])
    IN  [k \in 1..Len(first) |-> seq[first[k]]]

Categories(rows) == Unique([i \in 1..Len(rows) |-> rows[i].Category])

\* groupby('Category').sum().sort_values(ascending=False).head(5) over the Spent rows
TopCategories(rows) ==
    LET spent == OfType(rows, "Spent")
        cats == Categories(spent)
        stats == [i \in 1..Len(cats) |->
                    LET InCat(r) == r.Category = cats[i]
                    IN  [cat |-> cats[i], amt |-> SumAmount(SelectSeq(spent, InCat))]]
        sorted == SortDesc(stats, [i \in 1..Len(stats) |-> stats[i].amt])
    IN  SubSeq(sorted, 1, IF Len(sorted) < 5 THEN Len(sorted) ELSE 5)

\* a listing that is never cut
ShownAll(lines) == lines

\* "if display_count > limit: lines = lines[:limit]"
Shown(lines) == IF Len(lines) > LineLimit THEN SubSeq(lines, 1, LineLimit) ELSE lines

generate_analytics_context(filtered, header) ==
    LET total_spent == SumAmount(OfType(filtered, "Spent"))
        total_received == SumAmount(OfType(filtered, "Received"))
        txn_count == Len(filtered)
        \* sort_values(by='Date', ascending=False)
        lines == SortDesc(filtered, [i \in 1..Len(filtered) |-> DateSym(filtered[i].Date)])
        truncated == Len(lines) > LineLimit
        shown == Shown(lines)
    IN  [header |-> header,
         total_spent |-> total_spent,
         total_received |-> total_received,
         net |-> total_received - total_spent,
         count |-> txn_count,
         categories |-> TopCategories(filtered),
         lines |-> shown,
         more |-> IF truncated THEN Some(txn_count - LineLimit) ELSE None]

(***************************************************************************)
(* rag_pipeline.py: query_structured_data(question).  fault "dates" makes  *)
(* the date handling of a rule raise, fault "render" makes                 *)
(* _generate_analytics_context raise.                                      *)
(***************************************************************************)
Hit(rule, ctx) == [raised |-> FALSE, exc |-> "", rule |-> rule, context |-> Some(ctx)]
Miss == [raised |-> FALSE, exc |-> "", rule |-> "none", context |-> None]
Escaped(rule, exc) == [raised |-> TRUE, exc |-> exc, rule |-> rule, context |-> None]

\* rule 1: the rows on that day of that month, inside try/except
DayRows(df, q) ==
    LET dm == match_day(q)[1]
        Keep(r) == r.Date.d = dm.day /\ r.Date.m = dm.month
    IN  SelectSeq(df, Keep)

\* rule 2: the rows of that month of that year, inside try/except
MonthYearRows(df, q) ==
    LET my == match_my(q)[1]
        Keep(r) == r.Date.m = my.month /\ r.Date.y = my.year
    IN  SelectSeq(df, Keep)

\* rule 3: the rows of that month, all years, inside try/except
MonthRows(df, q) ==
    LET Keep(r) == r.Date.m = match_mon(q)[1] IN SelectSeq(df, Keep)

\* rule 4: the first category of the table, in order of appearance, the question mentions
MentionedCategory(df, q) ==
    LET cats == Categories(df)
    IN  FirstAt({i \in 1..Len(cats) : Mentions(q, cats[i])})

\* a date rule yields a context unless its try block raised or it filtered nothing
DateRuleAnswers(matched, rows, fault) ==
    matched /\ fault \notin {"dates", "render"} /\ rows # <<>>

\* some date rule's try block raised, and its "except Exception: pass" took it
Swallowed(q, fault) ==
    /\ GLOBAL_DF # None
    /\ GLOBAL_DF[1] # EmptyTable
    /\ \/ /\ fault = "dates"
          /\ (match_day(q) # None \/ match_my(q) # None \/ match_mon(q) # None)
       \/ /\ fault = "render"
          /\ \/ match_day(q) # None /\ DayRows(GLOBAL_DF[1], q) # <<>>
             \/ match_my(q) # None /\ MonthYearRows(GLOBAL_DF[1], q) # <<>>
             \/ match_mon(q) # None /\ MonthRows(GLOBAL_DF[1], q) # <<>>

query_structured_data(q, fault) ==
    IF GLOBAL_DF = None \/ GLOBAL_DF[1] = EmptyTable
    THEN Miss
    ELSE
    LET df == GLOBAL_DF[1]
    IN  IF match_day(q) # None /\ DateRuleAnswers(TRUE, DayRows(df, q), fault)
        THEN LET rows == DayRows(df, q)
             IN  Hit("day_month", generate_analytics_context(rows,
                        <<"on day", Len(rows), match_day(q)[1].day, match_day(q)[1].month>>))
        ELSE IF match_my(q) # None /\ DateRuleAnswers(TRUE, MonthYearRows(df, q), fault)
        THEN LET rows == MonthYearRows(df, q)
             IN  Hit("month_year", generate_analytics_context(rows,
                        <<"in month of year", Len(rows), match_my(q)[1].month, match_my(q)[1].year>>))
        ELSE IF match_mon(q) # None /\ DateRuleAnswers(TRUE, MonthRows(df, q), fault)
        THEN LET rows == MonthRows(df, q)
             IN  Hit("month", generate_analytics_context(rows,
                        <<"in month (All Years)", Len(rows), match_mon(q)[1]>>))
        ELSE IF MentionedCategory(df, q) # None
        THEN LET cat == Categories(df)[MentionedCategory(df, q)[1]]
                 InCat(r) == r.Category = cat
                 rows == SelectSeq(df, InCat)
             IN  IF fault = "render"
                 THEN Escaped("category", "render")
                 ELSE Hit("category", generate_analytics_context(rows,
                            <<"for category", Len(rows), cat>>))
        ELSE IF IsGeneric(q)
        THEN IF fault = "render"
             THEN Escaped("generic", "render")
             ELSE Hit("generic", generate_analytics_context(df, <<"All Time", Len(df)>>))
        ELSE Miss

(***************************************************************************)
(* rag_retrieval.py: retrieve(query, index, docs).  order is the answer of *)
(* the nearest-neighbour search: the positions of the index's vectors by   *)
(* descending similarity.  Scores are in hundredths.                       *)
(***************************************************************************)
Contains(doc, sym) == \E i \in 1..Len(doc) : doc[i] = sym

Item(text, score, type) == [text |-> text, cosine_score |-> score, type |-> type]

is_duplicate(doc_text, matches) == \E i \in 1..Len(matches) : matches[i].text = doc_text

\* index.search(q_emb, TOP_K): TOP_K labels, -1 where the index has no more vectors
SearchLabels(index, order) ==
    [i \in 1..TOP_K |-> IF i <= Len(order) THEN order[i] - 1 ELSE -1]

\* "if doc_idx < len(docs)": docs[doc_idx], where docs[-1] is the last chunk
semantic_results(index, docs, order) ==
    LET labels == SearchLabels(index, order)
        kept == SelectSeq([i \in 1..TOP_K |-> [rank |-> i, label |-> labels[i]]],
                          LAMBDA x : x.label < Len(docs))
    IN  SubSeq([i \in 1..Len(kept) |->
                   Item(IF kept[i].label >= 0 THEN docs[kept[i].label + 1] ELSE docs[Len(docs)],
                        IF kept[i].label >= 0 THEN 80 - kept[i].rank ELSE -1000,
                        "semantic")], 1, Len(kept))

\* r'\b\d{12}\b'
query_upis(q) ==
    SelectSeq(q, LAMBDA t : t.k = "num" /\ t.len = 12)

\* r'₹?\s?([\d,]+\.?\d*)' with float(clean_amt) > 0
query_amounts(q) == SelectSeq(q, LAMBDA t : t.k = "num" /\ t.v > 0)

\* r'\b[A-Z][a-zA-Z0-9]*\b' without the short words and the stop list
query_keywords(q) == SelectSeq(q, LAMBDA t : t.k = "word" /\ t.cap)

\* one pass "for doc in docs: for tok in toks: if tok in doc and not duplicate"
\* (a chunk is appended at its first occurrence among the chunks found)
MatchDocs(docs, toks, matches, score, type) ==
    LET found(i) == /\ \E k \in 1..Len(toks) : Contains(docs[i], toks[k].v)
                    /\ ~is_duplicate(docs[i], matches)
                    /\ \A j \in 1..(i - 1) : docs[j] # docs[i]
        kept == SelectSeq(SubSeq([i \in 1..Len(docs) |-> i], 1, Len(docs)), found)
    IN  matches \o SubSeq([k \in 1..Len(kept) |-> Item(docs[kept[k]], score, type)], 1, Len(kept))

\* "for amt in query_amounts: for doc in docs"
RECURSIVE MatchAmounts(_, _, _)
MatchAmounts(docs, amts, matches) ==
    IF amts = <<>> THEN matches
    ELSE MatchAmounts(docs, Tail(amts),
                      MatchDocs(docs, <<Head(amts)>>, matches, 95, "amount_match"))

exact_matches(q, docs) ==
    LET ids == MatchDocs(docs, query_upis(q), <<>>, 100, "exact_id_match")
        amounts == MatchAmounts(docs, query_amounts(q), ids)
    IN  MatchDocs(docs, query_keywords(q), amounts, 90, "keyword_match")

\* a merge that keeps every item
Concat(items, combined) == combined \o items

\* the items whose text was not seen before, in order
Combine(items, combined) ==
    LET fresh(i) == /\ ~is_duplicate(items[i].text, combined)
                    /\ \A j \in 1..(i - 1) : items[j].text # items[i].text
        kept == SelectSeq(SubSeq([i \in 1..Len(items) |-> i], 1, Len(items)), fresh)
    IN  combined \o SubSeq([k \in 1..Len(kept) |-> items[kept[k]]], 1, Len(kept))

\* a merge that lists the semantic results first
SemanticFirst(q, index, docs, order) ==
    LET combined == Combine(semantic_results(index, docs, order) \o exact_matches(q, docs), <<>>)
    IN  SubSeq(combined, 1, IF Len(combined) < TOP_K + 3 THEN Len(combined) ELSE TOP_K + 3)

retrieve(q, index, docs, order) ==
    LET combined == Combine(exact_matches(q, docs) \o semantic_results(index, docs, order), <<>>)
    IN  SubSeq(combined, 1, IF Len(combined) < TOP_K + 3 THEN Len(combined) ELSE TOP_K + 3)

(***************************************************************************)
(* rag_reranking.py: rerank_docs(query, doc_items).  scores[i] is the      *)
(* cross-encoder's score of the i-th pair.                                 *)
(***************************************************************************)
\* the first FINAL_K candidates with their scores, as they came
TakeFirst(doc_items, scores) ==
    LET scored == [i \in 1..Len(doc_items) |-> doc_items[i] @@ [rerank_score |-> scores[i]]]
    IN  SubSeq(scored, 1, IF Len(scored) < FINAL_K THEN Len(scored) ELSE FINAL_K)

\* what rerank_docs calls: nothing for no candidates, else the models and the scorer
rerank_calls(doc_items) ==
    IF doc_items = <<>> THEN <<>> ELSE <<"load_models", "predict">>

rerank_docs(doc_items, scores) ==
    IF doc_items = <<>> THEN <<>>
    ELSE LET scored == [i \in 1..Len(doc_items) |->
                          doc_items[i] @@ [rerank_score |-> scores[i]]]
             ranked == SortDesc(scored, [i \in 1..Len(scored) |-> scored[i].rerank_score])
         IN  SubSeq(ranked, 1, IF Len(ranked) < FINAL_K THEN Len(ranked) ELSE FINAL_K)

(***************************************************************************)
(* rag_llm.py: call_llm(prompt).  The answer is known by the prompt's      *)
(* context; failures come back as text.                                    *)
(***************************************************************************)
Answer(kind, exc) == [kind |-> kind, exc |-> exc]

LlmFaults == {"llm_no_key", "llm_exception", "llm_status"}

call_llm(fault) ==
    IF fault = "llm_no_key" THEN Answer("Error: OPENROUTER_API_KEY not configured", "llm_no_key")
    ELSE IF fault = "llm_exception" THEN Answer("Error calling LLM", "llm_exception")
    ELSE IF fault = "llm_status" THEN Answer("API Error", "llm_status")
    ELSE Answer("llm text", "")

(***************************************************************************)
(* rag_pipeline.py: query_rag(question).  The value is what the call       *)
(* returned or raised, the steps taken, the context handed to the language *)
(* model, the rule of the interceptor that answered and the list the       *)
(* reranker returned.                                                      *)
(***************************************************************************)
QueryReturn(answer, sources, calls, context, exc, s, reranked) ==
    [raised |-> FALSE, answer |-> answer, sources |-> sources, calls |-> calls,
     context |-> context, exc |-> exc, rule |-> s.rule, structured |-> s.context,
     reranked |-> reranked]

\* an exception leaves the try block
QueryRaise(exc, calls, s, reranked) ==
    [raised |-> TRUE, answer |-> Answer("", ""), sources |-> <<>>, calls |-> calls,
     context |-> None, exc |-> exc, rule |-> s.rule, structured |-> s.context,
     reranked |-> reranked]

NotReady == Answer("RAG system not initialized", "")
NoInformation == Answer("No relevant information found.", "")

\* a guard that takes a stored table for readiness
ReadyOrTable(g) == g.PDF_READY \/ g.GLOBAL_DF # None

\* the negation of "if not PDF_READY or INDEX is None"
IsReady(g) == g.PDF_READY /\ g.INDEX # None

\* a branch test that never takes the structured answer
NeverStructured(context) == FALSE

\* "if structured_context:"
UseStructured(context) == context # None

StructuredSource(ctx) ==
    [type |-> "structured_db_query", text |-> ctx, cosine_score |-> 100,
     rerank_score |-> 1000]

\* "sources = [{"type": "structured_db_query", ...}]"
StructuredSources(ctx) == <<StructuredSource(ctx)>>

\* the exception a failed language-model call is reported with
LlmExc(fault) == IF fault \in LlmFaults THEN fault ELSE ""

\* a test that takes every retrieval for non-empty
NeverEmpty(retrieved) == FALSE

\* "if not retrieved:"
NoCandidates(retrieved) == retrieved = <<>>

\* the body of the try block; with the fault "no_candidates" the retriever
\* called is one that returns the empty list
query_try(q, fault, order, scores) ==
    LET s == query_structured_data(q, fault)
    IN  IF s.raised
        THEN QueryRaise(s.exc, <<"query_structured_data">>, s, None)
        ELSE IF UseStructured(s.context)
        THEN QueryReturn(call_llm(fault), StructuredSources(s.context[1]),
                         <<"query_structured_data", "call_llm">>, s.context,
                         LlmExc(fault), s, None)
        ELSE IF fault = "retrieve"
        THEN QueryRaise("retrieve", <<"query_structured_data", "retrieve">>, s, None)
        ELSE IF INDEX = None
        \* index.search on None
        THEN QueryRaise("AttributeError", <<"query_structured_data", "retrieve">>, s,
                        None)
        ELSE
        LET retrieved == IF fault = "no_candidates" THEN <<>>
                         ELSE retrieve(q, INDEX[1], DOCS, order)
        IN  IF NoCandidates(retrieved)
            THEN QueryReturn(NoInformation, <<>>, <<"query_structured_data", "retrieve">>,
                             None, "", s, None)
            ELSE IF fault = "rerank"
            THEN QueryRaise("rerank", <<"query_structured_data", "retrieve", "rerank_docs">>,
                            s, None)
            ELSE
            LET reranked == rerank_docs(retrieved, scores)
            IN  QueryReturn(call_llm(fault), reranked,
                            <<"query_structured_data", "retrieve", "rerank_docs", "call_llm">>,
                            Some([i \in 1..Len(reranked) |-> reranked[i].text]),
                            LlmExc(fault), s, Some(reranked))

\* "except Exception as e: return {"answer": f"Error: {str(e)}", "sources": []}"
QueryHandler(o) ==
    IF o.raised
    THEN [o EXCEPT !.raised = FALSE, !.answer = Answer("Error", o.exc), !.sources = <<>>]
    ELSE o

query_rag(q, fault, order, scores) ==
    IF ~IsReady(Current)
    THEN QueryReturn(NotReady, <<>>, <<>>, None, "", Miss, None)
    ELSE QueryHandler(query_try(q, fault, order, scores))

(***************************************************************************)
(* The calls.                                                              *)
(***************************************************************************)
InitFaults == {"none", "read_pdf", "chunk", "load_models", "file_hash", "cache_load",
               "embed", "index", "cache_save"}

InitArgs ==
    {[file_path |-> p, df |-> None, source_file |-> NoPath] :
        p \in {"s1.pdf", "s2.pdf", NoPath}}
    \cup
    {[file_path |-> "nofile.pdf", df |-> Some(EmptyTable), source_file |-> NoPath]}
    \cup
    {[file_path |-> NoPath, df |-> Some(t), source_file |-> s] :
        t \in Tables, s \in {NoPath, "s1.pdf", "s1_copy.pdf"}}
    \cup
    {[file_path |-> "s1.pdf", df |-> Some(Table1), source_file |-> "s1.pdf"]}

\* "total spent"
QTotal == <<Phrase("total spent")>>
\* "1 Jan"
QDay == <<Num(1, 1), Mon(1)>>
\* "travel"
QCategory == <<Word(81, FALSE)>>
\* a capitalised merchant name, the description of Row1
QKeyword == <<Word(41, TRUE)>>
\* a question with nothing to match
QPlain == <<Word(7, FALSE)>>
\* "3 Jan", a day of which the tables have no row
QDayNone == <<Num(3, 1), Mon(1)>>
\* "Jan 2024"
QMonthYear == <<Mon(1), Num(2024, 4)>>

Questions == {QTotal, QDay, QCategory, QKeyword, QPlain, QDayNone, QMonthYear}

QueryFaults == {"none", "dates", "render", "retrieve", "no_candidates", "rerank"} \cup LlmFaults

RECURSIVE Perms(_)
Perms(n) ==
    IF n = 0 THEN {<<>>}
    ELSE UNION {{SubSeq([i \in 1..n |-> IF i < k THEN p[i] ELSE IF i = k THEN n ELSE p[i - 1]],
                        1, n) : k \in 1..n} : p \in Perms(n - 1)}

\* the failure sits in a step the query gets to: none before the readiness
\* test has passed, the date rules and the rendering only where a rule runs
\* them, the retriever and the reranker only past the structured answer
FaultCanFire(q, fault) ==
    IF fault = "none" THEN TRUE
    ELSE IF ~IsReady(Current) THEN FALSE
    ELSE IF fault \in {"dates", "render"}
    THEN Swallowed(q, fault) \/ query_structured_data(q, fault) # query_structured_data(q, "none")
    ELSE IF fault \in {"retrieve", "no_candidates", "rerank"}
    THEN ~UseStructured(query_structured_data(q, "none").context)
    ELSE TRUE

QueryFaultsOf(q) == {fault \in QueryFaults : FaultCanFire(q, fault)}

\* the failures an initialize call can meet: a call without data returns
\* before any step that can fail, the table branch reads no PDF, and
\* build_index is called with chunks and gets past a path that does not exist
\* only as far as load_models
BuildFaultsOf(path) ==
    IF Exists(path) THEN {"load_models", "file_hash", "cache_load", "embed", "index", "cache_save"}
    ELSE {"load_models"}

InitFaultsOf(args) ==
    IF DfGiven(args.df)
    THEN {"none", "chunk"} \cup BuildFaultsOf(DfIndexPath(args.source_file))
    ELSE IF args.file_path # NoPath /\ Exists(args.file_path)
    THEN {"none", "read_pdf", "chunk"} \cup
         (IF PdfChunks[FileBytes(args.file_path)] = <<>> THEN {}
          ELSE BuildFaultsOf(args.file_path))
    ELSE {"none"}

\* the search orders and cross-encoder scores a query can meet; one of each
\* when the query does not get as far as the retriever
Orders(q, fault) ==
    IF IsReady(Current) /\ INDEX # None /\ fault \notin {"retrieve", "no_candidates"}
          /\ LET s == query_structured_data(q, fault)
             IN  ~s.raised /\ ~UseStructured(s.context)
    THEN Perms(Len(INDEX[1].vecs))
    ELSE {<<>>}

Scores(q, fault, order) ==
    IF order # <<>> /\ fault # "rerank"
    THEN [1..Len(DOCS) -> 1..2]
    ELSE {<<>>}

NoCall == [op |-> "start", args |-> <<>>, exc |-> "", calls |-> <<>>, raised |-> FALSE,
           result |-> <<>>, context |-> None, repeats |-> None, entry_before |-> "unread",
           rule |-> "none", structured |-> None, reranked |-> None, was_ready |-> FALSE,
           swallowed |-> FALSE, found_nothing |-> FALSE]

Init ==
    /\ DOCS = <<>>
    /\ INDEX = None
    /\ PDF_READY = FALSE
    /\ EMBEDDING_SOURCE = "unknown"
    /\ GLOBAL_DF = None
    /\ cache = [h \in Hashes |-> Absent]
    /\ dim \in Dims
    /\ ret = NoCall
    /\ succeeded = FALSE
    /\ lastGen = None

\* the input of an initialize call: the table, when one is given, and the bytes
\* of the file the build is keyed by
InputOf(args) ==
    IF DfGiven(args.df)
    THEN [df |-> args.df, bytes |-> FileBytes(DfIndexPath(args.source_file))]
    ELSE [df |-> None, bytes |-> FileBytes(args.file_path)]

\* history: the chunk count of the preceding initialize call, if that call
\* succeeded with status "generated", had this very input and ran with the
\* dimensionality now active
Repeats(args) ==
    IF lastGen # None /\ lastGen[1].input = InputOf(args) /\ lastGen[1].dim = dim
    THEN Some(lastGen[1].chunk_count)
    ELSE None

\* one call of initialize_rag
Initialize(args, fault, partial) ==
    \E o \in {initialize_rag(args.file_path, args.df, args.source_file, fault, partial)} :
        /\ DOCS' = o.globals.DOCS
        /\ INDEX' = o.globals.INDEX
        /\ PDF_READY' = o.globals.PDF_READY
        /\ EMBEDDING_SOURCE' = o.globals.EMBEDDING_SOURCE
        /\ GLOBAL_DF' = o.globals.GLOBAL_DF
        /\ cache' = o.cache
        /\ ret' = [op |-> "initialize", args |-> args, exc |-> o.exc, calls |-> o.calls,
                   raised |-> o.raised, result |-> [success |-> o.success, info |-> o.info],
                   context |-> None, repeats |-> Repeats(args),
                   entry_before |-> o.entry_before, rule |-> "none", structured |-> None,
                   reranked |-> None, was_ready |-> PDF_READY, swallowed |-> FALSE,
                   found_nothing |-> FALSE]
        /\ succeeded' = (succeeded \/ o.success)
        /\ lastGen' = IF o.success /\ o.info.status = "generated"
                       THEN Some([input |-> InputOf(args),
                                  chunk_count |-> o.info.chunk_count, dim |-> dim])
                       ELSE None
        /\ UNCHANGED dim

\* the interceptor returns no context and the retriever no candidate
FoundNothing(q, fault) ==
    /\ fault = "no_candidates"
    /\ LET s == query_structured_data(q, fault)
       IN  ~s.raised /\ s.context = None

\* a query that forgets the index
ClearIndex(g) == [g EXCEPT !.INDEX = None]

\* the globals after query_rag: it declares PDF_READY, DOCS and INDEX global
\* and assigns none of them, nor do the functions it calls
QueryEffect(g) == g

\* one call of query_rag
Query(q, fault, order, scores) ==
    \E o \in {query_rag(q, fault, order, scores)}, g \in {QueryEffect(Current)} :
        /\ ret' = [op |-> "query", args |-> [question |-> q], exc |-> o.exc,
                   calls |-> o.calls, raised |-> o.raised,
                   result |-> [answer |-> o.answer, sources |-> o.sources],
                   context |-> o.context, repeats |-> None, entry_before |-> "unread",
                   rule |-> o.rule, structured |-> o.structured, reranked |-> o.reranked,
                   was_ready |-> FALSE,
                   swallowed |-> IsReady(Current) /\ Swallowed(q, fault),
                   found_nothing |-> IsReady(Current) /\ FoundNothing(q, fault)]
        /\ DOCS' = g.DOCS
        /\ INDEX' = g.INDEX
        /\ PDF_READY' = g.PDF_READY
        /\ EMBEDDING_SOURCE' = g.EMBEDDING_SOURCE
        /\ GLOBAL_DF' = g.GLOBAL_DF
        /\ UNCHANGED <<cache, dim, succeeded, lastGen>>

\* the process ends and a new one starts, with the embedding model of
\* dimensionality d configured: the globals are those of a fresh module, the
\* cache directory is what the old process left
Restart(d) ==
    /\ DOCS' = <<>>
    /\ INDEX' = None
    /\ PDF_READY' = FALSE
    /\ EMBEDDING_SOURCE' = "unknown"
    /\ GLOBAL_DF' = None
    /\ dim' = d
    /\ ret' = [NoCall EXCEPT !.op = "restart"]
    /\ succeeded' = FALSE
    /\ UNCHANGED <<cache, lastGen>>

Next ==
    \/ \E args \in InitArgs :
          \E fault \in InitFaultsOf(args) :
             \E partial \in (IF fault = "cache_save" THEN BOOLEAN ELSE {FALSE}) :
                Initialize(args, fault, partial)
    \/ \E q \in Questions :
       \E fault \in QueryFaultsOf(q) :
          \E order \in Orders(q, fault) :
             \E scores \in Scores(q, fault, order) :
                Query(q, fault, order, scores)
    \/ \E d \in Dims : Restart(d)

Spec == Init /\ [][Next]_vars

(***************************************************************************)
(* The initialize calls and restarts alone: the builds and the cache       *)
(* directory, without the queries in between, with one more source file.   *)
(***************************************************************************)
\* the calls of Spec and a table exported from the file of other bytes
BuildArgs ==
    InitArgs \cup {[file_path |-> NoPath, df |-> Some(Table2), source_file |-> "s2.pdf"]}

\* the failures that leave the cache directory changed or unread
BuildFaults == {"none", "file_hash", "embed", "cache_save"}

NextBuilds ==
    \/ \E args \in BuildArgs :
          \E fault \in InitFaultsOf(args) \cap BuildFaults :
             \E partial \in (IF fault = "cache_save" THEN BOOLEAN ELSE {FALSE}) :
                Initialize(args, fault, partial)
    \/ \E d \in Dims : Restart(d)

SpecBuilds == Init /\ [][NextBuilds]_vars

(***************************************************************************)
(* _generate_analytics_context on its own: filtered subsets of up to       *)
(* MaxRows rows, few or about LineLimit of them, in several mixes of       *)
(* types.                                                                  *)
(***************************************************************************)
RowMixes == {"spent", "received", "alternating", "thirds"}

RowCategories == <<"Travel", "Income", "Food", "Bills", "Fuel", "Rent", "Shopping">>

\* the i-th row of a subset of the mix
AnalyticsRow(i, mix) ==
    [Date |-> [d |-> ((i * 7) % 28) + 1, m |-> (i % 3) + 1, y |-> 2024 + (i % 2)],
     Time |-> 10, Description |-> 40 + (i % 5), Amount |-> 10 * i + 5,
     Type |-> CASE mix = "spent" -> "Spent"
                [] mix = "received" -> "Received"
                [] mix = "alternating" -> IF i % 2 = 1 THEN "Spent" ELSE "Received"
                [] OTHER -> IF i % 3 = 0 THEN "Received"
                            ELSE IF i % 3 = 1 THEN "Spent" ELSE "Refund",
     Category |-> RowCategories[(i % 7) + 1], UPI |-> 100000 + i]

AnalyticsRows(n, mix) == [i \in 1..n |-> AnalyticsRow(i, mix)]

RowCounts == {n \in 0..MaxRows : n <= FewRows \/ n >= LineLimit - 2}

\* one call of _generate_analytics_context, in a fresh process
Analytics(n, mix) ==
    /\ ret.op = "start"
    /\ ret' = [NoCall EXCEPT !.op = "analytics", !.args = [n |-> n, mix |-> mix],
                             !.result = generate_analytics_context(
                                            AnalyticsRows(n, mix), <<"rows", n>>)]
    /\ UNCHANGED <<DOCS, INDEX, PDF_READY, EMBEDDING_SOURCE, GLOBAL_DF, cache, dim,
                   succeeded, lastGen>>

NextAnalytics == \E n \in RowCounts, mix \in RowMixes : Analytics(n, mix)

SpecAnalytics == Init /\ [][NextAnalytics]_vars

(***************************************************************************)
(* initialize_rag and query_rag called from two threads: the assignments   *)
(* of a successful initialize_rag are single steps, and a query_rag call   *)
(* may run between any two of them.  ret holds the call in progress: the   *)
(* globals it is going to leave (target), the number of assignments done,  *)
(* and what the last query in between saw and answered.                    *)
(***************************************************************************)
\* the globals in the order the branch assigns them after build_index
CommitOrder(args) ==
    IF DfGiven(args.df)
    THEN <<"INDEX", "DOCS", "EMBEDDING_SOURCE", "PDF_READY">>
    ELSE <<"INDEX", "DOCS", "EMBEDDING_SOURCE", "PDF_READY", "GLOBAL_DF">>

SetGlobals(g) ==
    /\ DOCS' = g.DOCS
    /\ INDEX' = g.INDEX
    /\ PDF_READY' = g.PDF_READY
    /\ EMBEDDING_SOURCE' = g.EMBEDDING_SOURCE
    /\ GLOBAL_DF' = g.GLOBAL_DF

\* initialize_rag up to the return of build_index: the table is stored on
\* entering the table branch; a call that fails ends here
InitBegin(args, fault, partial) ==
    /\ ret.op # "initializing"
    /\ \E o \in {initialize_rag(args.file_path, args.df, args.source_file, fault, partial)} :
          /\ SetGlobals(IF ~o.success THEN o.globals
                        ELSE IF DfGiven(args.df) THEN EnterDfBranch(Current, args.df[1])
                        ELSE EnterPdfBranch(Current))
          /\ cache' = o.cache
          /\ ret' = [op |-> IF o.success THEN "initializing" ELSE "initialize",
                     args |-> args, success |-> o.success, target |-> o.globals,
                     done |-> 0, observed |-> None]
          /\ succeeded' = (succeeded \/ o.success)
    /\ UNCHANGED <<dim, lastGen>>

\* the next assignment of the call in progress; the last one ends the call
InitStep ==
    /\ ret.op = "initializing"
    /\ LET order == CommitOrder(ret.args)
           name == order[ret.done + 1]
       IN  /\ SetGlobals([Current EXCEPT ![name] = ret.target[name]])
           /\ ret' = [ret EXCEPT !.done = @ + 1,
                                 !.op = IF ret.done + 1 = Len(order)
                                        THEN "initialize" ELSE "initializing"]
    /\ UNCHANGED <<cache, dim, succeeded, lastGen>>

\* a query_rag call of the other thread, run as one step on the globals as
\* they are
Observe(q) ==
    /\ ret.op \in {"initializing", "initialize"}
    /\ LET n == IF INDEX = None THEN 0 ELSE Len(INDEX[1].vecs)
           o == query_rag(q, "none", [i \in 1..n |-> i], [i \in 1..Len(DOCS) |-> 1])
       IN  ret' = [ret EXCEPT !.observed =
                      Some([during |-> ret.op = "initializing", globals |-> Current,
                            answer |-> o.answer, sources |-> o.sources])]
    /\ UNCHANGED <<DOCS, INDEX, PDF_READY, EMBEDDING_SOURCE, GLOBAL_DF, cache, dim,
                   succeeded, lastGen>>

NextInterleaved ==
    \/ \E args \in BuildArgs, fault \in {"none", "embed"} : InitBegin(args, fault, FALSE)
    \/ InitStep
    \/ \E q \in {QTotal, QPlain} : Observe(q)

SpecInterleaved == Init /\ [][NextInterleaved]_vars

(***************************************************************************)
(* retrieve on its own: chunk sequences of up to MaxDocs chunks, questions *)
(* with identifiers, amounts and keywords, and several answers of the      *)
(* nearest-neighbour search.                                               *)
(***************************************************************************)
\* symbols: a 12-digit identifier, a 13-digit number, an amount, a keyword
IdSym == 900012
LongSym == 900013
AmountSym == 500
KeywordSym == 41

DocCounts == {1, 2, 3, MaxDocs - 4, MaxDocs}

\* where the identifiers, the keyword and the amount occur, and whether the
\* chunks come in pairs of equal text
Layouts ==
    [n : DocCounts, idpos : {"first", "last"}, kw : {"none", "all", "even"},
     amt : {"none", "odd"}, pairs : BOOLEAN]

\* the i-th chunk of the layout
LayoutDoc(l, i) ==
    <<200 + (IF l.pairs THEN (i + 1) \div 2 ELSE i)>>
    \o (IF i = (IF l.idpos = "first" THEN 1 ELSE l.n) /\ ~l.pairs
        THEN <<IdSym, LongSym>> ELSE <<>>)
    \o (IF l.kw = "all" \/ (l.kw = "even" /\ ((IF l.pairs THEN (i + 1) \div 2 ELSE i) % 2 = 0))
        THEN <<KeywordSym>> ELSE <<>>)
    \o (IF l.amt = "odd" /\ ((IF l.pairs THEN (i + 1) \div 2 ELSE i) % 2 = 1)
        THEN <<AmountSym>> ELSE <<>>)

LayoutDocs(l) == [i \in 1..l.n |-> LayoutDoc(l, i)]

\* the vectors by descending similarity: as indexed, reversed, or shifted
SearchOrders == {"indexed", "reversed", "shifted"}

SearchOrder(n, way) ==
    [i \in 1..n |-> CASE way = "indexed" -> i
                     [] way = "reversed" -> n + 1 - i
                     [] OTHER -> ((i + 4) % n) + 1]

RetrievalQuestions ==
    {<<Num(IdSym, 12)>>, <<Num(LongSym, 13)>>, <<Num(IdSym, 12), Word(KeywordSym, TRUE)>>,
     <<Word(KeywordSym, TRUE), Num(AmountSym, 3)>>,
     <<Word(KeywordSym, TRUE), Num(AmountSym, 3), Num(IdSym, 12)>>, <<Word(7, FALSE)>>}

\* one call of retrieve, in a fresh process
Retrieve(l, q, way) ==
    /\ ret.op = "start"
    /\ ret' = [NoCall EXCEPT !.op = "retrieve", !.args = [layout |-> l, question |-> q, way |-> way],
                             !.result = LET docs == SubSeq(LayoutDocs(l), 1, l.n)
                                        IN  retrieve(q, IndexFlatIP(dim, NormalizeL2(Encode(docs, dim))),
                                                     docs, SearchOrder(l.n, way))]
    /\ UNCHANGED <<DOCS, INDEX, PDF_READY, EMBEDDING_SOURCE, GLOBAL_DF, cache, dim,
                   succeeded, lastGen>>

NextRetrieve == \E l \in Layouts, q \in RetrievalQuestions, way \in SearchOrders : Retrieve(l, q, way)

SpecRetrieve == Init /\ [][NextRetrieve]_vars

(***************************************************************************)
(* rerank_docs on its own: candidate lists of up to MaxCandidates          *)
(* candidates and several score functions of the cross-encoder.            *)
(***************************************************************************)
Candidates(n) == SubSeq([i \in 1..n |-> Item(<<300 + i>>, 80 - i, "semantic")], 1, n)

ScorePatterns == {"rising", "falling", "equal", "cycle3", "cycle5", "negative", "valley"}

\* the cross-encoder's score of the i-th of n pairs
PatternScore(pattern, i, n) ==
    CASE pattern = "rising" -> i
      [] pattern = "falling" -> 0 - i
      [] pattern = "equal" -> 4
      [] pattern = "cycle3" -> i % 3
      [] pattern = "cycle5" -> (i * 7) % 5
      [] pattern = "negative" -> ((i * 3) % 7) - 10
      [] OTHER -> IF 2 * i < n THEN n - i ELSE i

PatternScores(pattern, n) == SubSeq([i \in 1..n |-> PatternScore(pattern, i, n)], 1, n)

\* one call of rerank_docs, in a fresh process
Rerank(n, pattern) ==
    /\ ret.op = "start"
    /\ ret' = [NoCall EXCEPT !.op = "rerank", !.args = [n |-> n, pattern |-> pattern],
                             !.calls = rerank_calls(Candidates(n)),
                             !.result = rerank_docs(Candidates(n), PatternScores(pattern, n))]
    /\ UNCHANGED <<DOCS, INDEX, PDF_READY, EMBEDDING_SOURCE, GLOBAL_DF, cache, dim,
                   succeeded, lastGen>>

NextRerank == \E n \in 0..MaxCandidates, pattern \in ScorePatterns : Rerank(n, pattern)

SpecRerank == Init /\ [][NextRerank]_vars

(***************************************************************************)
(* The fallback path of query_rag on its own: retrieve followed by         *)
(* rerank_docs, over the chunk sequences, questions and search orders of   *)
(* SpecRetrieve and the score functions of SpecRerank.                     *)
(***************************************************************************)
Sources(l, q, way, pattern) ==
    /\ ret.op = "start"
    /\ \E retrieved \in {LET docs == SubSeq(LayoutDocs(l), 1, l.n)
                          IN  retrieve(q, IndexFlatIP(dim, NormalizeL2(Encode(docs, dim))),
                                       docs, SearchOrder(l.n, way))} :
          ret' = [NoCall EXCEPT !.op = "sources",
                                !.args = [layout |-> l, question |-> q, way |-> way,
                                          pattern |-> pattern],
                                !.context = Some(retrieved),
                                !.result = rerank_docs(retrieved,
                                                       PatternScores(pattern, Len(retrieved)))]
    /\ UNCHANGED <<DOCS, INDEX, PDF_READY, EMBEDDING_SOURCE, GLOBAL_DF, cache, dim,
                   succeeded, lastGen>>

NextSources ==
    \E l \in Layouts, q \in RetrievalQuestions, way \in SearchOrders,
       pattern \in {"rising", "falling", "equal"} : Sources(l, q, way, pattern)

SpecSources == Init /\ [][NextSources]_vars

(***************************************************************************)
(* chunk_text on its own: texts of up to MaxChunkText characters with      *)
(* whitespace in several places, several sizes and overlaps.               *)
(***************************************************************************)
ChunkLens == {0, 1, 30, 200, 201, 205, 260, 300, MaxChunkText}

ChunkPatterns == {"ink", "edges", "gaps", "late", "blank"}

\* the i-th character of the text of n characters; 0 is whitespace
ChunkChar(n, pattern, i) ==
    CASE pattern = "ink" -> 1 + (i % 7)
      [] pattern = "edges" -> IF i <= 3 \/ i > n - 3 THEN 0 ELSE 1 + (i % 7)
      [] pattern = "gaps" -> IF (i % 10) < 2 THEN 0 ELSE 1 + (i % 7)
      [] pattern = "late" -> IF i > 198 /\ i < 215 THEN 0 ELSE 1 + (i % 7)
      [] OTHER -> 0

ChunkInput(n, pattern) == SubSeq([i \in 1..n |-> ChunkChar(n, pattern, i)], 1, n)

ChunkSizes == {2, 205, 250, 400}
ChunkOverlaps == {0, 1, 50, 100}

\* one call of chunk_text, in a fresh process
Chunk(n, pattern, size, overlap) ==
    /\ ret.op = "start"
    /\ overlap < size
    /\ n <= MaxWindows * (size - overlap)
    /\ ret' = [NoCall EXCEPT !.op = "chunk",
                             !.args = [n |-> n, pattern |-> pattern, size |-> size,
                                       overlap |-> overlap],
                             !.result = chunk_text(ChunkInput(n, pattern), size, overlap)]
    /\ UNCHANGED <<DOCS, INDEX, PDF_READY, EMBEDDING_SOURCE, GLOBAL_DF, cache, dim,
                   succeeded, lastGen>>

NextChunk ==
    \E n \in ChunkLens, pattern \in ChunkPatterns, size \in ChunkSizes,
       overlap \in ChunkOverlaps : Chunk(n, pattern, size, overlap)

SpecChunk == Init /\ [][NextChunk]_vars

(***************************************************************************)
(* transaction_processing/processor.py: process_csv_data(df).              *)
(* A raw row has a date, a time, an amount cell that is a number or some   *)
(* other text, and a description: a merchant name with or without the      *)
(* prefix "To ".                                                           *)
(***************************************************************************)
\* pd.to_numeric(errors='coerce'): the number, or NaN
to_numeric(cell) == IF cell.num THEN Some(cell.v) ELSE None

\* "df_copy[df_copy['Amount'] > 0]": NaN > 0 is false
PositiveAmount(r) == r.Amount # None /\ r.Amount[1] > 0

\* extract_merchant_name: the description without its prefix
extract_merchant_name(description) == [description EXCEPT !.to = FALSE]

\* categorize_transaction: the first category with a keyword in the name
categorize_transaction(description) == IF description.name = 1 THEN "Food" ELSE "Others"

\* _categorize_amount
categorize_amount(amount) ==
    IF amount < 100 THEN "Small"
    ELSE IF amount < 500 THEN "Medium"
    ELSE IF amount < 2000 THEN "Large"
    ELSE "Very Large"

\* the columns drop_duplicates compares
DedupKey(r) == <<r.Date, r.Time, r.Amount, r.Description>>

\* a table that keeps its duplicates
KeepAll(rows) == rows

\* drop_duplicates(subset=[Date, Time, Amount, Description]): the first of
\* each group stays
drop_duplicates(rows) ==
    LET first(i) == \A j \in 1..(i - 1) : DedupKey(rows[j]) # DedupKey(rows[i])
        kept == SelectSeq(SubSeq([i \in 1..Len(rows) |-> i], 1, Len(rows)), first)
    IN  SubSeq([k \in 1..Len(kept) |-> rows[kept[k]]], 1, Len(kept))

process_csv_data(df) ==
    IF df = <<>> THEN df
    ELSE LET numeric == [i \in 1..Len(df) |-> [df[i] EXCEPT !.Amount = to_numeric(@)]]
             valid == SelectSeq(SubSeq(numeric, 1, Len(df)), PositiveAmount)
             cleaned == [i \in 1..Len(valid) |->
                           [valid[i] EXCEPT !.Description = extract_merchant_name(@)]]
             enriched == [i \in 1..Len(valid) |->
                            cleaned[i] @@
                               [Category |-> categorize_transaction(cleaned[i].Description),
                                Amount_Category |-> categorize_amount(cleaned[i].Amount[1])]]
         IN  drop_duplicates(SubSeq(enriched, 1, Len(valid)))

\* the raw rows: two dates, a positive amount, zero and a cell that is no
\* number, one merchant written with and without the prefix
RawRows ==
    [Date : {1, 2}, Time : {1},
     Amount : {[num |-> TRUE, v |-> 50], [num |-> TRUE, v |-> 0], [num |-> FALSE, v |-> 0]},
     Description : {[to |-> TRUE, name |-> 1], [to |-> FALSE, name |-> 1]}]

RECURSIVE RawTables(_)
RawTables(n) ==
    IF n = 0 THEN {<<>>}
    ELSE RawTables(n - 1) \cup
         {Append(t, r) : t \in {u \in RawTables(n - 1) : Len(u) = n - 1}, r \in RawRows}

\* one call of process_csv_data, in a fresh process
Process(df) ==
    /\ ret.op = "start"
    /\ ret' = [NoCall EXCEPT !.op = "process", !.args = [df |-> df],
                             !.result = process_csv_data(df)]
    /\ UNCHANGED <<DOCS, INDEX, PDF_READY, EMBEDDING_SOURCE, GLOBAL_DF, cache, dim,
                   succeeded, lastGen>>

NextProcess == ret.op = "start" /\ \E df \in RawTables(MaxRawRows) : Process(df)

SpecProcess == Init /\ [][NextProcess]_vars

(***************************************************************************)
(* Properties.                                                             *)
(***************************************************************************)
\* the step was taken by the last call
Called(step) == \E i \in 1..Len(ret.calls) : ret.calls[i] = step

\* the exceptions the environment raises in build steps and chunkers
InjectedInitFaults == InitFaults \ {"none"}

\* the texts a failed language-model call comes back as
LlmErrorKinds ==
    {"Error: OPENROUTER_API_KEY not configured", "Error calling LLM", "API Error"}

\* C1: initialize and query never raise to their caller.  Whatever step an
\* exception comes from, initialize returns success = false with an "Error"
\* message carrying the exception, and query returns a result whose answer
\* carries the failure: the handler's "Error" text with empty sources, or the
\* error text the language-model call returned.
NeverRaises ==
    /\ ret.op = "initialize" =>
          /\ ~ret.raised
          /\ ret.exc # "" =>
                /\ ~ret.result.success
                /\ ret.result.info.message.kind = "Error"
                /\ ret.result.info.message.exc = ret.exc
    /\ ret.op = "query" =>
          /\ ~ret.raised
          /\ ret.exc # "" =>
                /\ ret.result.answer.exc = ret.exc
                /\ \/ ret.result.answer.kind = "Error" /\ ret.result.sources = <<>>
                   \/ ret.exc \in LlmFaults /\ ret.result.answer.kind \in LlmErrorKinds

\* a query in which _generate_analytics_context raised outside the rules' own
\* try blocks, answered with the error text
NeverRaisesWitness ==
    /\ ret.op = "query"
    /\ ret.exc = "render"
    /\ ret.calls = <<"query_structured_data">>
    /\ ret.result = [answer |-> Answer("Error", "render"), sources |-> <<>>]

\* C2: while no initialize call has succeeded since the process started, also
\* after failed initialize calls, query returns the fixed not-ready answer
\* with empty sources, calls neither the interceptor, the retriever, the
\* reranker nor the language model, and changes neither the globals nor the cache.
UninitializedQuery ==
    [][(ret'.op = "query" /\ ~succeeded) =>
          /\ ret'.result = [answer |-> NotReady, sources |-> <<>>]
          /\ ret'.calls = <<>>
          /\ ~ret'.raised
          /\ pipeline' = pipeline
          /\ cache' = cache]_vars

\* a not-ready answer after a failed initialize call that had stored its table
UninitializedQueryWitness ==
    /\ ret.op = "query"
    /\ ~succeeded
    /\ GLOBAL_DF # None
    /\ ret.result.answer = NotReady
    /\ ret.calls = <<>>

\* C3: after every successful initialize call the globals are exactly the
\* index and the chunks the call's build returned, one vector per chunk, and
\* the table of the call, or no table when the call indexed raw text; nothing
\* of the state before the call is kept.
ReplacesState ==
    (ret.op = "initialize" /\ ret.result.success) =>
        /\ PDF_READY
        /\ INDEX = Some(ret.result.info.index)
        /\ DOCS = ret.result.info.docs
        /\ Len(INDEX[1].vecs) = Len(DOCS)
        /\ \A i \in 1..Len(DOCS) : INDEX[1].vecs[i].of = DOCS[i]
        /\ GLOBAL_DF = (IF DfGiven(ret.args.df) THEN ret.args.df ELSE None)

\* a successful raw-text call made while a table session was held
ReplacesStateWitness ==
    /\ ret.op = "initialize"
    /\ ret.result.success
    /\ ret.was_ready
    /\ ~DfGiven(ret.args.df)
    /\ GLOBAL_DF = None
    /\ DOCS = PdfChunks[1]

\* the call has neither a non-empty table nor an existing file
NoInput(args) ==
    ~DfGiven(args.df) /\ (args.file_path = NoPath \/ ~Exists(args.file_path))

\* the call's file exists and its text gives no chunk
EmptyExtraction(args) ==
    /\ ~DfGiven(args.df)
    /\ args.file_path # NoPath
    /\ Exists(args.file_path)
    /\ PdfChunks[FileBytes(args.file_path)] = <<>>

NoInputMessages ==
    {"No data provided for indexing", "No text chunks extracted from PDF",
     "No chunks generated from DataFrame"}

\* C4: an initialize call with no input, or whose chunking gives no chunk,
\* returns success = false with a message and leaves INDEX, DOCS, PDF_READY
\* and GLOBAL_DF (and EMBEDDING_SOURCE) as they were.
FailedInputKeepsState ==
    [][(ret'.op = "initialize" /\ ret'.exc = ""
          /\ (NoInput(ret'.args) \/ EmptyExtraction(ret'.args))) =>
          /\ ~ret'.result.success
          /\ ret'.result.info.message.kind \in NoInputMessages
          /\ pipeline' = pipeline]_vars

\* an empty extraction while a table session is held, which stays held
FailedInputKeepsStateWitness ==
    /\ ret.op = "initialize"
    /\ EmptyExtraction(ret.args)
    /\ ret.result.info.message.kind = "No text chunks extracted from PDF"
    /\ ret.was_ready
    /\ PDF_READY
    /\ GLOBAL_DF # None

\* C5 (as claimed): initialize with a non-empty table and no source file skips
\* the cache key and the cache lookup, generates, and returns success = true
\* with status "generated", the pipeline Ready.
TableWithoutSourceGenerates ==
    (ret.op = "initialize" /\ DfGiven(ret.args.df) /\ ret.args.source_file = NoPath
        /\ ret.exc \notin InjectedInitFaults) =>
        /\ ret.result.success
        /\ ret.result.info.status = "generated"
        /\ PDF_READY
        /\ ~Called("file_hash")
        /\ ~Called("load_cached_embeddings")

\* C6: after an initialize call that succeeded with status "generated", the
\* next initialize call with the same table and the same file bytes, the
\* dimensionality unchanged and no step raising, returns status "cache_hit"
\* and the same chunk_count.
RepeatIsCacheHit ==
    (ret.op = "initialize" /\ ret.repeats # None /\ ret.exc \notin InjectedInitFaults) =>
        /\ ret.result.success
        /\ ret.result.info.status = "cache_hit"
        /\ ret.result.info.chunk_count = ret.repeats[1]

\* a repeated call served from the cache under another path of the same bytes
RepeatIsCacheHitWitness ==
    /\ ret.op = "initialize"
    /\ ret.repeats # None
    /\ ret.args.source_file = "s1_copy.pdf"
    /\ ret.result.success
    /\ ret.result.info.status = "cache_hit"

\* C7 (as claimed): a malformed or unreadable cache file for the source's hash
\* is treated like a miss: initialize recomputes and succeeds with status
\* "generated".
CorruptCacheIsMiss ==
    (ret.op = "initialize" /\ ret.entry_before = "corrupt") =>
        /\ ret.result.success
        /\ ret.result.info.status = "generated"

\* C8: no index is built from cached vectors of another dimensionality than
\* the active one; a call that meets such an entry, no step raising,
\* recomputes, returns status "generated" and overwrites the entry with
\* vectors of the active dimensionality.
StaleEntryRegenerated ==
    ret.op = "initialize" =>
        /\ ret.result.success =>
              /\ ret.result.info.index.built_from = dim
              /\ ret.result.info.index.dim = dim
        /\ (ret.entry_before = "stale" /\ ret.exc = "") =>
              /\ ret.result.success
              /\ ret.result.info.status = "generated"
              /\ Called("encode")
              /\ cache[ret.result.info.file_hash].kind = "ok"
              /\ cache[ret.result.info.file_hash].embeddings.dim = dim
              /\ cache[ret.result.info.file_hash].docs = ret.result.info.docs

\* a call that met an entry of the other dimensionality and regenerated
StaleEntryRegeneratedWitness ==
    /\ ret.op = "initialize"
    /\ ret.entry_before = "stale"
    /\ ret.result.success
    /\ ret.result.info.status = "generated"

\* C9 (as claimed): after every successful initialize call with a table of n
\* rows, chunk_count = n and DOCS is the in-order rendering of the table's
\* rows, also on a cache hit.
TableChunksAreRows ==
    (ret.op = "initialize" /\ ret.result.success /\ DfGiven(ret.args.df)) =>
        /\ ret.result.info.chunk_count = Len(ret.args.df[1])
        /\ DOCS = dataframe_to_chunks(ret.args.df[1])

\* C10: while Ready, when the interceptor returns a context, the retriever
\* and the reranker are not called, the language model's context is that
\* context and sources is the one structured pseudo-source; when it returns
\* none and the reranker has returned, sources is the reranked list and the
\* context its texts.
StructuredBypass ==
    (ret.op = "query" /\ IsReady(Current)) =>
        /\ ret.structured # None =>
              /\ ~Called("retrieve")
              /\ ~Called("rerank_docs")
              /\ Called("call_llm")
              /\ ret.context = ret.structured
              /\ ret.result.sources = <<StructuredSource(ret.structured[1])>>
        /\ (ret.structured = None /\ ret.reranked # None) =>
              /\ Called("retrieve")
              /\ ret.result.sources = ret.reranked[1]
              /\ ret.context =
                    Some([i \in 1..Len(ret.reranked[1]) |-> ret.reranked[1][i].text])

\* a question answered by the category rule
StructuredBypassWitness ==
    /\ ret.op = "query"
    /\ IsReady(Current)
    /\ ret.rule = "category"
    /\ ret.structured # None
    /\ Len(ret.result.sources) = 1
    /\ ret.result.sources[1].type = "structured_db_query"

\* the first rule, in the order of the source, whose pattern the question matches
FirstMatchingRule(q, df) ==
    IF match_day(q) # None THEN "day_month"
    ELSE IF match_my(q) # None THEN "month_year"
    ELSE IF match_mon(q) # None THEN "month"
    ELSE IF MentionedCategory(df, q) # None THEN "category"
    ELSE IF IsGeneric(q) THEN "generic"
    ELSE "none"

\* C11 (as claimed): the interceptor tries day+month, month+year, month only,
\* category, generic aggregate in this order, and the first rule the question
\* matches wins: a returned context is produced by that rule, no later rule
\* being consulted.
FirstMatchingRuleWins ==
    (ret.op = "query" /\ IsReady(Current) /\ ret.structured # None /\ ~ret.swallowed) =>
        ret.rule = FirstMatchingRule(ret.args.question, GLOBAL_DF[1])

\* C12 (as claimed): while Ready with a table loaded, when a date-handling
\* step raises while the interceptor processes the question, under any rule
\* and also while the matched rows are rendered, the query falls through to
\* hybrid retrieval and the error is not surfaced in the answer.
DateErrorFallsThrough ==
    (ret.op = "query" /\ IsReady(Current) /\ GLOBAL_DF # None
        /\ (ret.swallowed \/ ret.exc \in {"dates", "render"})) =>
        /\ ret.result.answer.kind # "Error"
        /\ ret.result.answer.exc \notin {"dates", "render"}
        /\ ret.structured = None
        /\ Called("retrieve")

\* the sum of the amounts of the rows lo..hi that have type t
RECURSIVE SumRange(_, _, _, _)
SumRange(rows, t, lo, hi) ==
    IF lo > hi THEN 0
    ELSE IF lo = hi THEN (IF rows[lo].Type = t THEN rows[lo].Amount ELSE 0)
    ELSE LET mid == (lo + hi) \div 2
         IN  SumRange(rows, t, lo, mid) + SumRange(rows, t, mid + 1, hi)

SumByIndex(rows, t, n) == SumRange(rows, t, 1, n)

\* C13: the summary statistics of a structured result are exact over the
\* whole filtered subset: total spent is the sum of the amounts of all its
\* rows of type Spent, total received that of its rows of type Received, net
\* is received minus spent, count is the number of its rows.
ExactStatistics ==
    ret.op = "analytics" =>
        LET rows == AnalyticsRows(ret.args.n, ret.args.mix)
        IN  /\ ret.result.total_spent = SumByIndex(rows, "Spent", Len(rows))
            /\ ret.result.total_received = SumByIndex(rows, "Received", Len(rows))
            /\ ret.result.net = ret.result.total_received - ret.result.total_spent
            /\ ret.result.count = Len(rows)

\* a subset longer than the listing, with rows spent, received and of another type
ExactStatisticsWitness ==
    /\ ret.op = "analytics"
    /\ ret.args.mix = "thirds"
    /\ ret.args.n > LineLimit
    /\ ret.result.total_spent > 0
    /\ ret.result.total_received > 0
    /\ ret.result.net # 0

\* C14: a structured result over N rows lists exactly 200 of them with the
\* note that N - 200 more are in the summary when N > 200, and all N with no
\* note when N <= 200; the lines are rows of the subset, latest first, and
\* the count and the totals cover all N rows.
TruncatedListing ==
    ret.op = "analytics" =>
        LET rows == AnalyticsRows(ret.args.n, ret.args.mix)
            N == Len(rows)
            lines == ret.result.lines
        IN  /\ N > LineLimit => Len(lines) = LineLimit /\ ret.result.more = Some(N - LineLimit)
            /\ N <= LineLimit => Len(lines) = N /\ ret.result.more = None
            /\ \A i \in 1..Len(lines) : \E j \in 1..N : rows[j] = lines[i]
            /\ \A i \in 1..(Len(lines) - 1) :
                  DateSym(lines[i].Date) >= DateSym(lines[i + 1].Date)
            /\ ret.result.count = N
            /\ ret.result.total_spent + ret.result.total_received
                  = SumByIndex(rows, "Spent", N) + SumByIndex(rows, "Received", N)

\* a listing cut to 200 lines, one row more being in the summary
TruncatedListingWitness ==
    /\ ret.op = "analytics"
    /\ ret.args.n = LineLimit + 1
    /\ Len(ret.result.lines) = LineLimit
    /\ ret.result.more = Some(1)
    /\ ret.result.count = LineLimit + 1

\* the chunks, by position, that contain the symbol
ChunksWith(docs, sym) == {i \in 1..Len(docs) : Contains(docs[i], sym)}

\* the chunks that contain one of the question's 12-digit identifiers
IdChunks(q, docs) ==
    {i \in 1..Len(docs) : \E k \in 1..Len(q) :
        q[k].k = "num" /\ q[k].len = 12 /\ Contains(docs[i], q[k].v)}

\* the chunk is in the result with the tag, before every semantic candidate
ListedBeforeSemantic(result, doc, tag) ==
    \E p \in 1..Len(result) :
        /\ result[p].text = doc
        /\ result[p].type = tag
        /\ \A s \in 1..Len(result) : result[s].type = "semantic" => p < s

TagRank(tag) ==
    CASE tag = "exact_id_match" -> 1
      [] tag = "amount_match" -> 2
      [] tag = "keyword_match" -> 3
      [] OTHER -> 4

\* the tag of the first strategy, in the order id, amount, keyword, semantic,
\* that finds the chunk
FirstTag(q, doc) ==
    IF \E k \in 1..Len(q) : q[k].k = "num" /\ q[k].len = 12 /\ Contains(doc, q[k].v)
    THEN "exact_id_match"
    ELSE IF \E k \in 1..Len(q) : q[k].k = "num" /\ q[k].v > 0 /\ Contains(doc, q[k].v)
    THEN "amount_match"
    ELSE IF \E k \in 1..Len(q) : q[k].k = "word" /\ q[k].cap /\ Contains(doc, q[k].v)
    THEN "keyword_match"
    ELSE "semantic"

\* C16: the result of retrieve lists the exact_id_match candidates, then the
\* amount_match, then the keyword_match, then the semantic candidates not yet
\* included; no chunk text occurs twice, each chunk carrying the tag of the
\* first strategy that finds it; the result has at most K+3 entries, and
\* only the cut to K+3 leaves a matched chunk out.
MergeOrder ==
    ret.op = "retrieve" =>
        LET docs == LayoutDocs(ret.args.layout)
            q == ret.args.question
            r == ret.result
        IN  /\ Len(r) <= TOP_K + 3
            /\ \A i, j \in 1..Len(r) : i < j =>
                  /\ TagRank(r[i].type) <= TagRank(r[j].type)
                  /\ r[i].text # r[j].text
            /\ \A i \in 1..Len(r) :
                  /\ \E d \in 1..Len(docs) : docs[d] = r[i].text
                  /\ r[i].type = FirstTag(q, r[i].text)
            /\ Len(r) < TOP_K + 3 =>
                  \A d \in 1..Len(docs) :
                     FirstTag(q, docs[d]) # "semantic" => \E i \in 1..Len(r) : r[i].text = docs[d]

\* a result cut to K+3 entries that holds candidates of three tags, a chunk
\* matched by amount and keyword being listed under amount_match
MergeOrderWitness ==
    /\ ret.op = "retrieve"
    /\ Len(ret.result) = TOP_K + 3
    /\ \E i, j, k \in 1..Len(ret.result) :
          /\ ret.result[i].type = "exact_id_match"
          /\ ret.result[j].type = "amount_match"
          /\ Contains(ret.result[j].text, KeywordSym)
          /\ ret.result[k].type = "keyword_match"

\* C17: rerank_docs returns min(F, n) of the n candidates, each at most once
\* and with the cross-encoder's score of its pair, ordered by non-increasing
\* score, every omitted candidate scoring no higher than every returned one;
\* for no candidates it returns the empty list and calls neither the model
\* loader nor the scorer.
RerankContract ==
    ret.op = "rerank" =>
        LET n == ret.args.n
            items == Candidates(n)
            scores == PatternScores(ret.args.pattern, n)
            r == ret.result
            returned == {d \in 1..n : \E i \in 1..Len(r) : r[i].text = items[d].text}
        IN  /\ Len(r) = IF n < FINAL_K THEN n ELSE FINAL_K
            /\ \A i \in 1..Len(r) :
                  \E d \in 1..n : r[i] = items[d] @@ [rerank_score |-> scores[d]]
            /\ \A i, j \in 1..Len(r) : i < j =>
                  /\ r[i].text # r[j].text
                  /\ r[i].rerank_score >= r[j].rerank_score
            /\ \A d \in (1..n) \ returned : \A i \in 1..Len(r) : scores[d] <= r[i].rerank_score
            /\ n = 0 => r = <<>> /\ ret.calls = <<>>
            /\ n > 0 => ret.calls = <<"load_models", "predict">>

\* more than F candidates with rising scores: the last F come back, best first
RerankContractWitness ==
    /\ ret.op = "rerank"
    /\ ret.args.n = FINAL_K + 2
    /\ ret.args.pattern = "rising"
    /\ Len(ret.result) = FINAL_K
    /\ ret.result[1].text = <<300 + FINAL_K + 2>>
    /\ ret.result[FINAL_K].text = <<303>>

\* C18: while Ready, when the interceptor returns no context and the
\* retriever returns no candidate, query_rag returns the fixed
\* no-relevant-information answer with empty sources, and neither the
\* reranker nor the language model is called.
RetrievalEmpty ==
    (ret.op = "query" /\ IsReady(Current) /\ ret.found_nothing) =>
        /\ ret.result = [answer |-> NoInformation, sources |-> <<>>]
        /\ ~Called("rerank_docs")
        /\ ~Called("call_llm")

\* a question no rule answers, asked while Ready of a retriever that finds nothing
RetrievalEmptyWitness ==
    /\ ret.op = "query"
    /\ IsReady(Current)
    /\ ret.found_nothing
    /\ ret.structured = None
    /\ ret.calls = <<"query_structured_data", "retrieve">>
    /\ ret.result.answer = NoInformation
    /\ ret.result.sources = <<>>

\* C19: the table held is that of the most recent successful initialize
\* call if it was given a table, and none if that call ingested a file: a
\* successful call leaves its table or none, a failed call and a query leave
\* the table as it was.
TableOfLastSuccess ==
    [][/\ (ret'.op = "initialize" /\ ret'.result.success) =>
             GLOBAL_DF' = (IF DfGiven(ret'.args.df) THEN ret'.args.df ELSE None)
       /\ (ret'.op = "initialize" /\ ~ret'.result.success) => GLOBAL_DF' = GLOBAL_DF
       /\ ret'.op = "query" => GLOBAL_DF' = GLOBAL_DF]_vars

\* C20: in every Ready state the index holds as many vectors as there are
\* chunks, vector i is the unit-normalised embedding of chunk i, and the
\* index and its vectors have the dimensionality of the embedding model in use.
IndexMatchesChunks ==
    IsReady(Current) =>
        /\ Len(INDEX[1].vecs) = Len(DOCS)
        /\ \A i \in 1..Len(DOCS) : INDEX[1].vecs[i] = [of |-> DOCS[i], unit |-> TRUE]
        /\ INDEX[1].dim = dim
        /\ INDEX[1].built_from = dim

\* Ready after a build from the cache, of more than one chunk, in a process
\* that had been Ready with another index before
IndexMatchesChunksWitness ==
    /\ ret.op = "initialize"
    /\ ret.result.success
    /\ ret.result.info.status = "cache_hit"
    /\ ret.was_ready
    /\ IsReady(Current)
    /\ Len(DOCS) > 1

\* C21: a query call, whatever branch it takes, leaves the index, the chunk
\* sequence, the readiness flag, the structured table and the embedding cache
\* as they were.
QueryFrame ==
    [][ret'.op = "query" => UNCHANGED <<DOCS, INDEX, PDF_READY, GLOBAL_DF, cache>>]_vars

\* a query that ended in an error while Ready with a table and a filled cache
QueryFrameWitness ==
    /\ ret.op = "query"
    /\ IsReady(Current)
    /\ GLOBAL_DF # None
    /\ ret.result.answer.kind = "Error"
    /\ \E h \in Hashes : cache[h] # Absent

\* C22 (as claimed): an initialize call given a non-empty table and the path
\* of an existing file stores the table, calls neither read_pdf nor
\* chunk_text, and when it succeeds the chunks held are the renderings of the
\* table's rows.
TablePriority ==
    (/\ ret.op = "initialize"
     /\ DfGiven(ret.args.df)
     /\ ret.args.file_path # NoPath /\ Exists(ret.args.file_path)) =>
        /\ GLOBAL_DF = ret.args.df
        /\ ~Called("read_pdf")
        /\ ~Called("chunk_text")
        /\ ret.result.success => DOCS = dataframe_to_chunks(ret.args.df[1])

\* the path whose bytes key the build of an initialize call
KeyedPath(args) ==
    IF DfGiven(args.df) THEN DfIndexPath(args.source_file) ELSE args.file_path

\* C24: the cache key depends only on the file's bytes.  An initialize call
\* that gets as far as the cache reads the entry under the digest of its
\* file's bytes and touches no other entry; it returns that digest; when the
\* preceding call generated an entry from a file of the same bytes, under
\* whatever name, with the same dimensionality and no step raises, the call is
\* a cache_hit; and a call cannot hit an entry made from other bytes.
CacheKeyIsBytes ==
    [][(/\ ret'.op = "initialize"
        /\ \E i \in 1..Len(ret'.calls) : ret'.calls[i] = "load_cached_embeddings") =>
          LET h == Md5(FileBytes(KeyedPath(ret'.args)))
          IN  /\ \A k \in Hashes \ {h} : cache'[k] = cache[k]
              /\ ret'.entry_before = EntryKind(cache[h], dim)
              /\ ret'.result.success =>
                    /\ ret'.result.info.file_hash = h
                    /\ cache'[h].kind = "ok"
                    /\ cache'[h].docs = DOCS'
                    /\ ret'.result.info.status = "cache_hit" => cache'[h] = cache[h]
              /\ (/\ lastGen # None
                  /\ lastGen[1].input.bytes = FileBytes(KeyedPath(ret'.args))
                  /\ lastGen[1].dim = dim
                  /\ ret'.exc = "") =>
                    /\ ret'.result.success
                    /\ ret'.result.info.status = "cache_hit"]_vars

\* a cache hit under the name s1_copy.pdf on the entry made from the bytes of
\* s1.pdf, while the file of other bytes has an entry of its own
CacheKeyIsBytesWitness ==
    /\ ret.op = "initialize"
    /\ ret.args.source_file = "s1_copy.pdf"
    /\ ret.result.success
    /\ ret.result.info.status = "cache_hit"
    /\ ret.result.info.file_hash = Md5(1)
    /\ cache[Md5(2)].kind = "ok"
    /\ cache[Md5(2)] # cache[Md5(1)]

\* what the four compared fields of a raw row become in the processed table
ProcessedKey(x) ==
    <<x.Date, x.Time, to_numeric(x.Amount), extract_merchant_name(x.Description)>>

\* the rows of the processed table that come from raw rows equal to x in the
\* four fields
KeptOf(result, x) == {i \in 1..Len(result) : DedupKey(result[i]) = ProcessedKey(x)}

\* C25 (as claimed): the processed table has no two rows equal in (date, time,
\* amount, description), every kept row has amount > 0, and of every group of
\* raw rows identical in the four fields exactly one is kept.
OneOfEveryGroup ==
    ret.op = "process" =>
        /\ \A i, j \in 1..Len(ret.result) :
              i # j => DedupKey(ret.result[i]) # DedupKey(ret.result[j])
        /\ \A i \in 1..Len(ret.result) : PositiveAmount(ret.result[i])
        /\ \A k \in 1..Len(ret.args.df) : Cardinality(KeptOf(ret.result, ret.args.df[k])) = 1

\* C25 (amended): the processed table has no two rows equal in (date, time,
\* amount, description), every kept row has amount > 0, of every group of raw
\* rows identical in the four fields whose amount is a number greater than 0
\* exactly one is kept, and of a group whose amount is not, none.
OneOfEveryValidGroup ==
    ret.op = "process" =>
        /\ \A i, j \in 1..Len(ret.result) :
              i # j => DedupKey(ret.result[i]) # DedupKey(ret.result[j])
        /\ \A i \in 1..Len(ret.result) : PositiveAmount(ret.result[i])
        /\ \A k \in 1..Len(ret.args.df) :
              LET x == ret.args.df[k]
              IN  Cardinality(KeptOf(ret.result, x)) =
                     IF x.Amount.num /\ x.Amount.v > 0 THEN 1 ELSE 0

\* three raw rows, two of them identical with a positive amount and one with
\* an amount of zero: one row is kept
OneOfEveryValidGroupWitness ==
    /\ ret.op = "process"
    /\ Len(ret.args.df) = 3
    /\ ret.args.df[1] = ret.args.df[3]
    /\ ret.args.df[1].Amount = [num |-> TRUE, v |-> 50]
    /\ ret.args.df[2].Amount = [num |-> TRUE, v |-> 0]
    /\ Len(ret.result) = 1

\* the 0-based starts 0, size - overlap, 2 * (size - overlap), ... below n
WindowStarts(n, size, overlap) ==
    {k * (size - overlap) : k \in {j \in 0..n : j * (size - overlap) < n}}

\* the characters of text after start i, at most size of them
Slice(text, i, size) ==
    [k \in 1..(IF Len(text) - i < size THEN Len(text) - i ELSE size) |-> text[i + k]]

\* w without its leading and trailing whitespace
Trimmed(w) ==
    LET ink == {k \in 1..Len(w) : w[k] # 0}
    IN  IF ink = {} THEN <<>>
        ELSE LET lo == CHOOSE k \in ink : \A m \in ink : k <= m
                 hi == CHOOSE k \in ink : \A m \in ink : m <= k
             IN  [k \in 1..(hi - lo + 1) |-> w[lo + k - 1]]

\* the starts whose trimmed window is longer than the threshold, ascending
KeptStarts(text, size, overlap) ==
    LET kept == {i \in WindowStarts(Len(text), size, overlap) :
                    Len(Trimmed(Slice(text, i, size))) > MinChunkLen}
    IN  [k \in 1..Cardinality(kept) |->
            CHOOSE i \in kept : Cardinality({m \in kept : m < i}) = k - 1]

\* C26 (as claimed): chunk_text returns, in order of start, the windows
\* text[i : i + size] whose trimmed length exceeds the threshold.
ChunksAreWindows ==
    ret.op = "chunk" =>
        LET text == ChunkInput(ret.args.n, ret.args.pattern)
            starts == KeptStarts(text, ret.args.size, ret.args.overlap)
        IN  /\ Len(ret.result) = Len(starts)
            /\ \A k \in 1..Len(starts) :
                  ret.result[k] = Slice(text, starts[k], ret.args.size)

\* C26 (amended): chunk_text with overlap < size returns, in order of start,
\* the trimmed windows text[i : i + size] for i = 0, size - overlap, ... below
\* len(text) whose trimmed length exceeds the threshold; every chunk has at
\* most size characters, and the empty text yields the empty sequence.
ChunksAreTrimmedWindows ==
    ret.op = "chunk" =>
        LET text == ChunkInput(ret.args.n, ret.args.pattern)
            starts == KeptStarts(text, ret.args.size, ret.args.overlap)
        IN  /\ Len(ret.result) = Len(starts)
            /\ \A k \in 1..Len(starts) :
                  ret.result[k] = Trimmed(Slice(text, starts[k], ret.args.size))
            /\ \A k \in 1..Len(ret.result) :
                  Len(ret.result[k]) <= ret.args.size /\ Len(ret.result[k]) > MinChunkLen
            /\ ret.args.n = 0 => ret.result = <<>>

\* two overlapping windows are returned, the second shorter than the size and
\* trimmed at its end
ChunksAreTrimmedWindowsWitness ==
    /\ ret.op = "chunk"
    /\ ret.args = [n |-> MaxChunkText, pattern |-> "edges", size |-> 250, overlap |-> 50]
    /\ Len(ret.result) = 2
    /\ Len(ret.result[1]) = 247
    /\ Len(ret.result[2]) = MaxChunkText - 203

\* C30 (as claimed): every non-whitespace character of the text lies inside
\* the window of at least one returned chunk.
NoTextLost ==
    ret.op = "chunk" =>
        LET text == ChunkInput(ret.args.n, ret.args.pattern)
            starts == KeptStarts(text, ret.args.size, ret.args.overlap)
        IN  \A p \in 1..Len(text) :
               text[p] # 0 =>
                  \E k \in 1..Len(starts) :
                     /\ starts[k] < p /\ p <= starts[k] + ret.args.size
                     /\ \E c \in 1..Len(ret.result) :
                           ret.result[c] = Trimmed(Slice(text, starts[k], ret.args.size))

\* the steps of a build after chunking, by the exception they raise
DownstreamFaults == {"FileNotFoundError", "file_hash", "cache_load", "embed", "index",
                     "cache_save"}

\* C27 (as claimed): an initialize call in which a step of the build raises
\* returns success = false and leaves INDEX, DOCS, PDF_READY and GLOBAL_DF as
\* they were.
DownstreamFailureKeepsState ==
    [][(ret'.op = "initialize" /\ ret'.exc \in DownstreamFaults) =>
          /\ ~ret'.result.success
          /\ INDEX' = INDEX
          /\ DOCS' = DOCS
          /\ PDF_READY' = PDF_READY
          /\ GLOBAL_DF' = GLOBAL_DF]_vars

\* C28 (as claimed): every chunk that retrieve tagged exact_id_match is among
\* the sources the reranker returns.
ExactIdKeptByReranker ==
    ret.op = "sources" =>
        \A i \in 1..Len(ret.context[1]) :
           ret.context[1][i].type = "exact_id_match" =>
              \E j \in 1..Len(ret.result) : ret.result[j].text = ret.context[1][i].text

\* C29 (as claimed): for a question with a day+month phrase, every row of a
\* structured context the interceptor returns has that day of the month and
\* that month, and the context counts no other rows.
DayMonthNotWidened ==
    (/\ ret.op = "query" /\ IsReady(Current)
     /\ match_day(ret.args.question) # None
     /\ ret.structured # None) =>
        LET dm == match_day(ret.args.question)[1]
            ctx == ret.structured[1]
        IN  /\ \A i \in 1..Len(ctx.lines) :
                  ctx.lines[i].Date.d = dm.day /\ ctx.lines[i].Date.m = dm.month
            /\ ctx.count = Len(DayRows(GLOBAL_DF[1], ret.args.question))

\* C23 (as claimed, its last part): a state that mixes two sessions is
\* reachable only when a query runs between the steps of an initialize call.
\* With the calls run one after the other, no initialize call leaves a Ready
\* pipeline holding a new structured table together with the index and the
\* chunk sequence of the session before.
MixedOnlyWhenInterleaved ==
    [][ret'.op = "initialize" =>
          ~(/\ PDF_READY /\ PDF_READY'
            /\ INDEX # None /\ INDEX' = INDEX /\ DOCS' = DOCS
            /\ GLOBAL_DF' # None /\ GLOBAL_DF' # GLOBAL_DF
            /\ ~ret'.result.success)]_vars

\* what an interleaved query can see: the new index with the chunk sequence of
\* the session before
MixedObservation ==
    /\ ret.op = "initializing"
    /\ ret.observed # None
    /\ ret.observed[1].globals.PDF_READY
    /\ ret.observed[1].globals.INDEX = ret.target.INDEX
    /\ ret.observed[1].globals.DOCS # ret.target.DOCS
    /\ ret.observed[1].globals.DOCS # <<>>

\* a query between the steps never sees a mixed state
NoMixedObservation == ~MixedObservation

====
